---- MODULE Spec2Model ----
(***************************************************************************)
(* A model of the client service layer of learny (services/api.js):       *)
(*   - getProgressUpdates: the SSE progress stream with bounded reconnect  *)
(*   - the axios response interceptor and refreshAuthToken                 *)
(*   - the history facade (getHistoryPreview, saveToHistory, ...)          *)
(*   - migrateLearningPaths, the credential store (saveApiTokens, ...)    *)
(*   - the progress list of pages/GeneratorPage.js                        *)
(* Every subsystem has its own next-state relation and specification; the  *)
(* variables of the other subsystems stay as Init left them.              *)
(***************************************************************************)
EXTENDS Integers, Sequences, FiniteSets, Bags, TLC

VARIABLES
    \* ---- getProgressUpdates (one call) ----
    es,            \* every EventSource created by connect(), by readyState
    eventSource,   \* `let eventSource`: index into es, 0 = null
    retryCount,    \* `let retryCount`
    timers,        \* pending setTimeout(connect, 1000) timers
    calls,         \* how often each callback of the caller was invoked
    nEvents,       \* events the transport delivered so far (bounds the run)
    lastEv,        \* observer: the last step taken
    lastCb,        \* observer: the callback invoked by the last step
    consecFails,   \* observer: onerror events since the last onopen / progress message
    attempts,      \* observer: connections made since the last reset (the live one included)
    wiped,         \* observer: the failures the last reset that followed failures wiped out
    closeCalled,   \* observer: handle.close() was called
    postClose,     \* observer: a callback or a connect() ran after handle.close()
    completeSeen,  \* observer: an event with complete=true was handled
    postComplete,  \* observer: a callback or a connect() ran after completion
    progressUpdates, \* GeneratorPage: the `progressUpdates` state (the messages of its entries)
    lastMsg,       \* observer: the message of the preceding inbound progress event
    progressPercentage, \* GeneratorPage: the `progressPercentage` state
    \* ---- auth session: module state and the api instance ----
    authToken,          \* `let authToken`: 0 = null, else a token
    authHeader,         \* api.defaults.headers.common['Authorization']: 0 = unset
    authRecord,         \* localStorage 'auth': 0 = absent, else its accessToken
    isRefreshingToken,  \* `let isRefreshingToken`
    refreshSubscribers, \* `let refreshSubscribers`: how many callbacks it holds
    refreshCalls,       \* POST /auth/refresh calls in flight
    req,                \* the requests made through the api instance (a bag)
    refreshCount,       \* observer: POST /auth/refresh issued so far
    refreshOK,          \* observer: refresh calls that succeeded so far
    burst,              \* observer: how many requests waited on the last finished refresh
    authEv,             \* observer: the last step of the auth subsystem
    selfRefresh,        \* observer: a 401 of the refresh call itself started a refresh
    \* ---- history facade ----
    local,       \* Local History Store: the ids of its entries
    nextLocal,   \* ids the Local History Store generated so far
    remote,      \* the server's learning paths of the user: their path_ids
    nextRemote,  \* path_ids the server issued so far
    cache,       \* sessionStorage history_preview_<key>: NoEntry or {data, timestamp}
    now,         \* Date.now(), in ms since the page was loaded
    call,        \* the facade call suspended at its `await api...`, or Idle
    hev,         \* observer: what the last facade step did and returned
    \* ---- credential store ----
    session,     \* sessionStorage: the value under each credential key, or "absent"
    credCall,    \* the authenticateApiKeys call suspended at its `await api.post`
    credEv,      \* observer: the last credential operation and what it returned
    \* ---- export and import of the server's history ----
    serverPaths, \* the server's learning paths: topic, tags, favorite and source of each
    exported,    \* what the last exportHistory() returned, as the caller serialises it
    tripEv,      \* observer: the last step of an export / import
    \* ---- GeneratorPage and the tag lists ----
    closureUpdates, \* the `progressUpdates` the onMessage callback of the page's latest call closed over
    laterCall,      \* the getProgressUpdates call the page made for a later task: "none" or "live"
    initialTags,    \* GeneratorPage: the `initialTags` state
    saveDialogTags, \* GeneratorPage: the `saveDialogTags` state
    entryTags,      \* HistoryEntryCard: the `entry.tags` it was rendered with
    storedTags      \* the tags of that entry as the history stores them

clientVars == <<eventSource, retryCount, timers, calls, nEvents, consecFails, attempts,
                wiped, postClose, completeSeen, postComplete, lastMsg>>

streamVars == <<clientVars, es, lastEv, lastCb, closeCalled, progressUpdates,
                progressPercentage>>

authVars == <<authToken, authHeader, authRecord, isRefreshingToken, refreshSubscribers,
              refreshCalls, req, refreshCount, refreshOK, burst, authEv, selfRefresh>>

histVars == <<local, nextLocal, remote, nextRemote, cache, now, call, hev>>

credVars == <<session, credCall, credEv>>

tripVars == <<serverPaths, exported, tripEv>>

tagVars == <<initialTags, saveDialogTags, entryTags, storedTags>>

pageVars == <<closureUpdates, laterCall, tagVars>>

sideVars == <<credVars, tripVars, pageVars>>

vars == <<streamVars, authVars, histVars, sideVars>>

\* ------------------------------------------------------------------ bounds
MaxEvents == 8
NumRequests == 5
MaxEntries == 2
MaxTicks == 3
MaxPaths == 1
MaxUpdates == 2
MaxBatch == 11

\* --------------------------------------------------------------- constants
MAX_RETRIES == 3
cacheTimeMs == 60000

\* =================================================================
\* getProgressUpdates
\* =================================================================

\* The data of an inbound SSE event: valid JSON or not, its `complete`
\* flag, and its `message`: absent, one of two progress texts, or text that
\* starts with "Error:".
Payloads ==
    [valid : BOOLEAN, complete : BOOLEAN, message : {"none", "text", "text2", "Error:"}]

Callbacks == {"onMessage", "onErrorServer", "onErrorParse", "onErrorLost", "onComplete"}

NoCalls == [c \in Callbacks |-> 0]

\* A readyState other than CLOSED: the EventSource may still dispatch events.
Live(i) == i \in 1..Len(es) /\ es[i] # "closed"

LiveSet == {i \in 1..Len(es) : es[i] # "closed"}

\* EventSource.close() on the object `eventSource` refers to.
CloseCurrent(s) ==
    IF eventSource = 0 THEN s ELSE [s EXCEPT ![eventSource] = "closed"]

\* Book-keeping of the observers for a step that invokes callback cb
\* ("none": no callback) and makes (or not) a new connection.
Observe(ev, cb, connected) ==
    /\ lastEv' = ev
    /\ lastCb' = cb
    /\ calls' = IF cb = "none" THEN calls ELSE [calls EXCEPT ![cb] = @ + 1]
    /\ postClose' = (postClose \/ (closeCalled /\ (cb # "none" \/ connected)))
    /\ postComplete' = (postComplete \/ (completeSeen /\ (cb # "none" \/ connected)))

\* connect(): eventSource = new EventSource(url), handlers attached.
Connect ==
    /\ es' = Append(es, "connecting")
    /\ eventSource' = Len(es) + 1

\* `retryCount < MAX_RETRIES`: the guard of the reconnect in onerror.
RetryAllowed_Inclusive == retryCount <= MAX_RETRIES

RetryAllowed_Always == TRUE

RetryAllowed == retryCount < MAX_RETRIES

\* The value onopen leaves in retryCount.
OnOpenRetryCount_Keep == retryCount

OnOpenRetryCount == 0

\* What the complete branch of onmessage does to the connections.
CompleteCloses_Nothing(s) == s

CompleteCloses(s) == CloseCurrent(s)

\* `data.message && data.message.startsWith("Error:")`
IsServerError_Never(p) == FALSE

IsServerError(p) == p.message = "Error:"

\* `catch (err) { ...; if (onError) onError(err) }` of onmessage: the
\* callback an event invokes whose data JSON.parse rejects.
ParseErrorCallback_Swallowed == "none"

ParseErrorCallback == "onErrorParse"

\* `if (onMessage) onMessage(data)`: the callback a progress event invokes.
MessageCallback_Deduplicating(p) ==
    IF p.message = lastMsg THEN "none" ELSE "onMessage"

MessageCallback(p) == "onMessage"

\* The test of the page's onMessage callback: the list is empty or the
\* message of its last entry differs from data.message.
IsNewMessage_Always(prev, msg) == TRUE

IsNewMessage(prev, msg) == Len(prev) = 0 \/ prev[Len(prev)] # msg

\* setProgressUpdates(prevUpdates => ...) of the page's onMessage callback.
PageOnMessage(prev, msg) ==
    IF IsNewMessage(prev, msg) THEN Append(prev, msg) ELSE prev

\* A progress text is modelled as the sequence of its words: a phrase of
\* the mapping's vocabulary (or other text), or a run of digits with its
\* value.
Phrase(w) == [w |-> w, n |-> 0]

Digits(n) == [w |-> "digits", n |-> n]

\* String.prototype.includes(kw) on one word: "submodules into" holds
\* "submodules"; no other keyword is part of another one.
Within(kw, w) == w = kw \/ (kw = "submodules" /\ w = "submodules into")

\* lastMessage.includes(kw)
Includes(text, kw) == \E i \in 1..Len(text) : Within(kw, text[i].w)

\* lastMessage.match(/batch (\d+) with/): where the text has a word ending
\* in "batch", then digits, then "with".
BatchMatches(text) ==
    {i \in 1..(Len(text) - 2) :
        /\ text[i].w \in {"Processing submodule batch", "Completed batch"}
        /\ text[i + 1].w = "digits"
        /\ text[i + 2].w = "with"}

\* Math.min
Min(a, b) == IF a < b THEN a ELSE b

\* `Math.min(30 * (currentBatch / 10), 30)`. The quotient is a double; for
\* every batch number below 10 the product is exactly 3 * currentBatch, and
\* from 10 on the minimum is 30.
BatchBonus_PerBatch(currentBatch) == 30 * currentBatch

BatchBonus(currentBatch) == Min((30 * currentBatch) \div 10, 30)

\* calculateProgress(updates) of connectToProgressUpdates.
calculateProgress(updates) ==
    IF Len(updates) = 0 THEN 10
    ELSE LET lastMessage == updates[Len(updates)]
             batchMatch == BatchMatches(lastMessage)
             first == CHOOSE i \in batchMatch : \A j \in batchMatch : i <= j
         IN  IF Includes(lastMessage, "Generated") /\ Includes(lastMessage, "search queries")
               THEN 20
             ELSE IF Includes(lastMessage, "Executed") /\ Includes(lastMessage, "web searches")
               THEN 30
             ELSE IF Includes(lastMessage, "Created learning path with")
               THEN 40
             ELSE IF Includes(lastMessage, "Planned") /\ Includes(lastMessage, "submodules")
               THEN 50
             ELSE IF Includes(lastMessage, "Organized") /\ Includes(lastMessage, "submodules into")
               THEN 60
             ELSE IF Includes(lastMessage, "Processing submodule batch")
               THEN IF batchMatch # {}
                      THEN 60 + BatchBonus(lastMessage[first + 1].n)
                      ELSE 70
             ELSE IF Includes(lastMessage, "Completed batch")
               THEN 80
             ELSE IF Includes(lastMessage, "Finalized")
               THEN 95
             ELSE Min(5 + Len(updates) * 2, 90)

\* `setProgressPercentage(calculateProgress(progressUpdates))`: the list the
\* callback passes is the `progressUpdates` of the render that created it.
PercentageArgument(closure, updated) == closure

\* `useState([])`: the `progressUpdates` of the render of the first submit.
InitialUpdates == <<>>

\* eventSource.onopen of connection i.
OnOpen(i) ==
    /\ UNCHANGED <<authVars, histVars, sideVars>>
    /\ nEvents < MaxEvents
    /\ i \in 1..Len(es) /\ es[i] = "connecting"
    /\ es' = [es EXCEPT ![i] = "open"]
    /\ retryCount' = OnOpenRetryCount
    /\ nEvents' = nEvents + 1
    /\ consecFails' = 0
    /\ attempts' = 1
    /\ wiped' = IF consecFails > 0 THEN consecFails ELSE wiped
    /\ Observe("open", "none", FALSE)
    /\ UNCHANGED <<eventSource, timers, closeCalled, completeSeen, progressUpdates, lastMsg, progressPercentage>>

\* eventSource.onmessage of connection i with event data p.
OnMessage(i, p) ==
    /\ UNCHANGED <<authVars, histVars, sideVars>>
    /\ nEvents < MaxEvents
    /\ i \in 1..Len(es) /\ es[i] = "open"
    /\ nEvents' = nEvents + 1
    /\ IF ~p.valid
         THEN \* JSON.parse throws: catch (err) { onError(err) }
              /\ Observe("bad", ParseErrorCallback, FALSE)
              /\ UNCHANGED <<es, retryCount, consecFails, attempts, wiped, completeSeen,
                             progressUpdates, lastMsg, progressPercentage>>
         ELSE IF p.complete
         THEN /\ es' = CompleteCloses(es)
              /\ completeSeen' = TRUE
              /\ Observe("complete", "onComplete", FALSE)
              /\ UNCHANGED <<retryCount, consecFails, attempts, wiped, progressUpdates, lastMsg, progressPercentage>>
         ELSE IF IsServerError(p)
         THEN /\ Observe("errmsg", "onErrorServer", FALSE)
              /\ lastMsg' = p.message
              /\ UNCHANGED <<es, retryCount, consecFails, attempts, wiped, completeSeen,
                             progressUpdates, progressPercentage>>
         ELSE /\ retryCount' = 0
              /\ consecFails' = 0
              /\ attempts' = 1
              /\ wiped' = IF consecFails > 0 THEN consecFails ELSE wiped
              /\ Observe("msg", MessageCallback(p), FALSE)
              /\ progressUpdates' = IF MessageCallback(p) = "onMessage"
                                       THEN PageOnMessage(progressUpdates, p.message)
                                       ELSE progressUpdates
              /\ progressPercentage' =
                    IF MessageCallback(p) = "onMessage"
                      THEN calculateProgress(PercentageArgument(InitialUpdates,
                                 PageOnMessage(progressUpdates, p.message)))
                      ELSE progressPercentage
              /\ lastMsg' = p.message
              /\ UNCHANGED <<es, completeSeen>>
    /\ UNCHANGED <<eventSource, timers, closeCalled>>

\* eventSource.onerror of connection i.
OnError(i) ==
    /\ UNCHANGED <<authVars, histVars, sideVars>>
    /\ nEvents < MaxEvents
    /\ Live(i)
    /\ nEvents' = nEvents + 1
    /\ es' = CloseCurrent(es)
    /\ consecFails' = consecFails + 1
    /\ IF RetryAllowed
         THEN /\ retryCount' = retryCount + 1
              /\ timers' = timers + 1
              /\ Observe("fail", "none", FALSE)
         ELSE /\ Observe("fail", "onErrorLost", FALSE)
              /\ UNCHANGED <<retryCount, timers>>
    /\ UNCHANGED <<eventSource, attempts, wiped, closeCalled, completeSeen,
                   progressUpdates, lastMsg, progressPercentage>>

\* A setTimeout(connect, 1000) timer fires.
TimerFire ==
    /\ UNCHANGED <<authVars, histVars, sideVars>>
    /\ timers > 0
    /\ timers' = timers - 1
    /\ Connect
    /\ attempts' = attempts + 1
    /\ Observe("timer", "none", TRUE)
    /\ UNCHANGED <<retryCount, nEvents, consecFails, wiped, closeCalled, completeSeen,
                   progressUpdates, lastMsg, progressPercentage>>

\* close() of the handle getProgressUpdates returned.
Close ==
    /\ UNCHANGED <<authVars, histVars, sideVars>>
    /\ es' = CloseCurrent(es)
    /\ closeCalled' = TRUE
    /\ Observe("close", "none", FALSE)
    /\ UNCHANGED <<eventSource, retryCount, timers, nEvents, consecFails, attempts,
                   wiped, completeSeen, progressUpdates, lastMsg, progressPercentage>>

\* The state getProgressUpdates returns in: connect() has run once.
InitStream ==
    /\ es = <<"connecting">>
    /\ eventSource = 1
    /\ retryCount = 0
    /\ timers = 0
    /\ calls = NoCalls
    /\ nEvents = 0
    /\ lastEv = "none"
    /\ lastCb = "none"
    /\ consecFails = 0
    /\ attempts = 1
    /\ wiped = 0
    /\ closeCalled = FALSE
    /\ postClose = FALSE
    /\ completeSeen = FALSE
    /\ postComplete = FALSE
    /\ progressUpdates = <<>>
    /\ lastMsg = "nil"
    /\ progressPercentage = 10

NextStream ==
    \/ \E i \in 1..Len(es) : OnOpen(i)
    \/ \E i \in 1..Len(es), p \in Payloads : OnMessage(i, p)
    \/ \E i \in 1..Len(es) : OnError(i)
    \/ TimerFire
    \/ Close

\* =================================================================
\* Auth session: setAuthToken / clearAuthToken, the response interceptor
\* of the api instance, refreshAuthToken
\* =================================================================

\* The token the server issues with the next successful refresh (1 is the
\* token of the stored session).
NewToken == refreshOK + 2

\* A request: where it stands, the Authorization header it carries while
\* in flight (0 once settled: the config is not used again), its _retry mark, how often axios(originalRequest) replayed it, and what its
\* caller got: "ok", "own401" (the error object of its own first 401),
\* "otherError" (an error other than 401, rejected by the interceptor).
\* Requests differ in nothing else, so req is the bag of these records.
NewRequest ==
    [st |-> "idle", hdr |-> 0, retry |-> FALSE, replays |-> 0, result |-> "none"]

One(x) == SetToBag({x})

RECURSIVE SumOver(_, _)
SumOver(S, b) ==
    IF S = {} THEN 0
    ELSE LET e == CHOOSE x \in S : TRUE IN b[e] + SumOver(S \ {e}, b)

\* How many requests of bag b are in one of the states sts.
CountSt(b, sts) == SumOver({e \in BagToSet(b) : e.st \in sts}, b)

\* The requests of bag b in state st, as a bag.
InSt(b, st) ==
    LET S == {e \in BagToSet(b) : e.st = st} IN [e \in S |-> b[e]]

Step(b, from, to) == (b (-) One(from)) (+) One(to)

Waiting == CountSt(req, {"refreshing", "subscribed"})

\* `!originalRequest._retry && !originalRequest.url.includes('/auth/refresh')`
ShouldRefresh_AnyUrl(retry, isRefreshUrl) == ~retry

ShouldRefresh(retry, isRefreshUrl) == ~retry /\ ~isRefreshUrl

\* `if (isRefreshingToken)` at the head of refreshAuthToken.
AlreadyRefreshing_Never == FALSE

AlreadyRefreshing == isRefreshingToken

\* What the interceptor's .catch leaves in localStorage 'auth'.
AuthRecordAfterFailure_Kept == authRecord

AuthRecordAfterFailure == 0

\* How many of the subscribed callbacks onTokenRefreshed calls: all.
Notified_FirstOnly == IF refreshSubscribers = 0 THEN 0 ELSE 1

Notified == refreshSubscribers

\* The .then() of the interceptor: originalRequest gets the new token and
\* is replayed with axios(originalRequest).
Replay(e, t) == [e EXCEPT !.st = "replayed", !.hdr = t, !.replays = @ + 1]

\* The .catch() of the interceptor: Promise.reject(error), the request's
\* own 401 error.
RejectOwn(e) == [e EXCEPT !.st = "done", !.hdr = 0, !.result = "own401"]

\* The caller gets the response.
Resolve(e) == [e EXCEPT !.st = "done", !.hdr = 0, !.result = "ok"]

\* The requests of bag b, each replayed with token t.
ReplayAll(b, t) ==
    LET T == {Replay(e, t) : e \in BagToSet(b)}
    IN [y \in T |-> SumOver({e \in BagToSet(b) : Replay(e, t) = y}, b)]

\* The requests of bag b, each rejected with its own error.
RejectAll(b) ==
    LET T == {RejectOwn(e) : e \in BagToSet(b)}
    IN [y \in T |-> SumOver({e \in BagToSet(b) : RejectOwn(e) = y}, b)]

\* api.get/post/...: the request leaves with the default Authorization
\* header.
Send ==
    /\ BagIn(NewRequest, req)
    /\ req' = Step(req, NewRequest, [NewRequest EXCEPT !.st = "sent", !.hdr = authHeader])
    /\ authEv' = "send"
    /\ UNCHANGED <<authToken, authHeader, authRecord, isRefreshingToken,
                   refreshSubscribers, refreshCalls, refreshCount, refreshOK, burst,
                   selfRefresh>>
    /\ UNCHANGED <<streamVars, histVars, sideVars>>

\* A 2xx response to request e: `response => response`.
Respond200(e) ==
    /\ e.st = "sent"
    /\ req' = Step(req, e, Resolve(e))
    /\ authEv' = "ok"
    /\ UNCHANGED <<authToken, authHeader, authRecord, isRefreshingToken,
                   refreshSubscribers, refreshCalls, refreshCount, refreshOK, burst,
                   selfRefresh>>
    /\ UNCHANGED <<streamVars, histVars, sideVars>>

\* An error other than 401 (or no response): rejected, formatted or as-is.
RespondOther(e) ==
    /\ e.st = "sent"
    /\ req' = Step(req, e, [e EXCEPT !.st = "done", !.hdr = 0, !.result = "otherError"])
    /\ authEv' = "other"
    /\ UNCHANGED <<authToken, authHeader, authRecord, isRefreshingToken,
                   refreshSubscribers, refreshCalls, refreshCount, refreshOK, burst,
                   selfRefresh>>
    /\ UNCHANGED <<streamVars, histVars, sideVars>>

\* A 401 response to request e of the api instance: the interceptor marks
\* the request and calls refreshAuthToken(), which either subscribes to
\* the refresh in flight or posts /auth/refresh itself.
Respond401(e) ==
    /\ e.st = "sent"
    /\ IF ShouldRefresh(e.retry, FALSE)
         THEN IF AlreadyRefreshing
                THEN /\ req' = Step(req, e, [e EXCEPT !.st = "subscribed", !.retry = TRUE])
                     /\ refreshSubscribers' = refreshSubscribers + 1
                     /\ authEv' = "subscribe"
                     /\ UNCHANGED <<isRefreshingToken, refreshCalls, refreshCount>>
                ELSE /\ req' = Step(req, e, [e EXCEPT !.st = "refreshing", !.retry = TRUE])
                     /\ isRefreshingToken' = TRUE
                     /\ refreshCalls' = refreshCalls + 1
                     /\ refreshCount' = refreshCount + 1
                     /\ authEv' = "refresh"
                     /\ UNCHANGED refreshSubscribers
         ELSE /\ req' = Step(req, e, RejectOwn(e))
              /\ authEv' = "reject401"
              /\ UNCHANGED <<isRefreshingToken, refreshSubscribers, refreshCalls,
                             refreshCount>>
    /\ UNCHANGED <<authToken, authHeader, authRecord, refreshOK, burst, selfRefresh>>
    /\ UNCHANGED <<streamVars, histVars, sideVars>>

\* The replayed request e succeeds: its caller gets the response.
ReplayRespond200(e) ==
    /\ e.st = "replayed"
    /\ req' = Step(req, e, Resolve(e))
    /\ authEv' = "replayOk"
    /\ UNCHANGED <<authToken, authHeader, authRecord, isRefreshingToken,
                   refreshSubscribers, refreshCalls, refreshCount, refreshOK, burst,
                   selfRefresh>>
    /\ UNCHANGED <<streamVars, histVars, sideVars>>

\* The replayed request e fails (a second 401, or any other error).
\* axios(originalRequest) is the bare axios, which has no interceptor; its
\* rejection inside .then() reaches the .catch() of the same chain, which
\* clears the auth state and rejects with the original error.
ReplayFail(e) ==
    /\ e.st = "replayed"
    /\ req' = Step(req, e, RejectOwn(e))
    /\ authToken' = 0
    /\ authHeader' = 0
    /\ authRecord' = AuthRecordAfterFailure
    /\ authEv' = "replayFail"
    /\ UNCHANGED <<isRefreshingToken, refreshSubscribers, refreshCalls, refreshCount,
                   refreshOK, burst, selfRefresh>>
    /\ UNCHANGED <<streamVars, histVars, sideVars>>

\* The requests the end of a refresh settles: its owner o and, of the
\* subscribed requests, as many as callbacks are called.
Settled(o) ==
    {One(o) (+) S : S \in {T \in SubBag(InSt(req, "subscribed")) :
                             BagCardinality(T) = Notified}}

\* POST /auth/refresh of owner o succeeds: refreshAuthToken stores the
\* token, notifies the subscribers and resets the flag; then the .then()
\* of the owner and of every notified subscriber replays its request.
RefreshSucceed(o) ==
    /\ refreshCalls > 0
    /\ o.st = "refreshing"
    /\ LET t == NewToken
       IN /\ authToken' = t
          /\ authHeader' = t
          /\ authRecord' = IF authRecord # 0 THEN t ELSE 0
          /\ \E S \in Settled(o) : req' = (req (-) S) (+) ReplayAll(S, t)
    /\ refreshSubscribers' = 0
    /\ isRefreshingToken' = FALSE
    /\ refreshCalls' = refreshCalls - 1
    /\ refreshOK' = refreshOK + 1
    /\ burst' = 1 + refreshSubscribers
    /\ authEv' = "refreshOk"
    /\ UNCHANGED <<refreshCount, selfRefresh>>
    /\ UNCHANGED <<streamVars, histVars, sideVars>>

\* POST /auth/refresh of owner o fails, with a 401 (is401) or otherwise.
\* The 401 passes the interceptor, which must not refresh for the refresh
\* URL. refreshAuthToken notifies the subscribers with null and resets the
\* flag; the .catch() of the owner and of every notified subscriber clears
\* the auth state and rejects with that request's own 401 error.
RefreshFail(o, is401) ==
    /\ refreshCalls > 0
    /\ o.st = "refreshing"
    /\ refreshCalls' = refreshCalls - 1
    /\ IF is401 /\ ShouldRefresh(FALSE, TRUE)
         THEN \* refreshAuthToken() from within the refresh: it subscribes
              \* to itself and never settles
              /\ selfRefresh' = TRUE
              /\ req' = Step(req, o, [o EXCEPT !.st = "stuck"])
              /\ authEv' = "selfRefresh"
              /\ UNCHANGED <<authToken, authHeader, authRecord, isRefreshingToken,
                             refreshSubscribers, burst>>
         ELSE /\ \E S \in Settled(o) : req' = (req (-) S) (+) RejectAll(S)
              /\ refreshSubscribers' = 0
              /\ isRefreshingToken' = FALSE
              /\ authToken' = 0
              /\ authHeader' = 0
              /\ authRecord' = AuthRecordAfterFailure
              /\ burst' = 1 + refreshSubscribers
              /\ authEv' = IF is401 THEN "refreshFail401" ELSE "refreshFail"
              /\ UNCHANGED selfRefresh
    /\ UNCHANGED <<refreshCount, refreshOK>>
    /\ UNCHANGED <<streamVars, histVars, sideVars>>

\* clearAuthToken() called by the application (logout).
ClearAuthToken ==
    /\ authToken # 0 \/ authHeader # 0
    /\ authToken' = 0
    /\ authHeader' = 0
    /\ authEv' = "clear"
    /\ hev' = [op |-> "logout", phase |-> "none", key |-> "none", outcome |-> "none",
               tokenSet |-> FALSE, localCalled |-> FALSE, threw |-> FALSE,
               net |-> FALSE, ret |-> <<"none", 0>>]
    /\ UNCHANGED <<authRecord, isRefreshingToken, refreshSubscribers, refreshCalls, req,
                   refreshCount, refreshOK, burst, selfRefresh>>
    /\ UNCHANGED <<local, nextLocal, remote, nextRemote, cache, now, call>>
    /\ UNCHANGED <<streamVars, sideVars>>

\* The module after import: initAuthFromStorage() found a stored session.
InitAuth ==
    /\ authToken = 1
    /\ authHeader = 1
    /\ authRecord = 1
    /\ isRefreshingToken = FALSE
    /\ refreshSubscribers = 0
    /\ refreshCalls = 0
    /\ req = [e \in {NewRequest} |-> NumRequests]
    /\ refreshCount = 0
    /\ refreshOK = 0
    /\ burst = 0
    /\ authEv = "none"
    /\ selfRefresh = FALSE

NextAuth ==
    \/ Send
    \/ \E e \in BagToSet(req) : Respond200(e)
    \/ \E e \in BagToSet(req) : RespondOther(e)
    \/ \E e \in BagToSet(req) : Respond401(e)
    \/ \E e \in BagToSet(req) : ReplayRespond200(e)
    \/ \E e \in BagToSet(req) : ReplayFail(e)
    \/ \E o \in BagToSet(req) : RefreshSucceed(o)
    \/ \E o \in BagToSet(req), is401 \in BOOLEAN : RefreshFail(o, is401)
    \/ ClearAuthToken

\* =================================================================
\* History facade: getHistoryPreview, saveToHistory, importLearningPath,
\* updateHistoryEntry, deleteHistoryEntry over the Remote History Client
\* (the api instance) and the Local History Store (localHistoryService)
\* =================================================================

\* The sessions a user may log in with (authToken holds the session's token).
Sessions == {1, 2}

\* Two (sortBy, filterSource, searchTerm) combinations, by their cacheKey.
Keys == {"history_preview_creation_date_null_null", "history_preview_topic_null_null"}

\* The payloads GET /learning-paths may answer with.
PreviewData == {<<"payload", 1>>, <<"payload", 2>>}

NoData == <<"none", 0>>

NoEntry == [data |-> NoData, timestamp |-> 0 - 1]

\* How far Date.now() moves between two steps of the model.
TickMs == cacheTimeMs \div 2

LocalIds == {<<"local", n>> : n \in 1..MaxEntries}

ServerIds == {<<"server", n>> : n \in 1..MaxEntries}

\* What a remote call of the facade ends with, as its catch sees it:
\*   "ok"    a 2xx response (possibly after a refresh and a replay)
\*   "error" no response, or a status other than 401/403
\*   "e403"  status 403
\*   "e401"  status 401: the interceptor's refresh or replay has failed,
\*           and its .catch has cleared authToken, the header and 'auth'
Outcomes == {"ok", "error", "e403", "e401"}

Idle ==
    [op |-> "idle", key |-> "none", id |-> NoData, paths |-> {}, hdr |-> FALSE,
     token |-> 0]

NoEv ==
    [op |-> "none", phase |-> "none", key |-> "none", outcome |-> "none",
     atCall |-> FALSE, tokenSet |-> FALSE, localCalled |-> FALSE, threw |-> FALSE,
     net |-> FALSE, ret |-> NoData]

\* `if (authToken)` / `if (!authToken)`: the facade's choice of backend.
UseRemote_Always == TRUE

UseRemote_Never == FALSE

UseRemote == authToken # 0

\* `if (!authToken)` in the catch of updateHistoryEntry / deleteHistoryEntry,
\* where authToken is tok.
FallbackAllowed_Always(tok) == TRUE

FallbackAllowed(tok) == tok = 0

\* `age < cacheTimeMs` for the cached entry of key k.
CacheFresh_Inclusive(k) ==
    cache[k] # NoEntry /\ now - cache[k].timestamp <= cacheTimeMs

CacheFresh(k) ==
    cache[k] # NoEntry /\ now - cache[k].timestamp < cacheTimeMs

\* The interceptor's part in a failed remote call: on "e401" its .catch has
\* run clearAuthToken() and localStorage.removeItem('auth').
TokenAfter(outcome, clearsOn403) ==
    IF outcome = "e401" \/ (outcome = "e403" /\ clearsOn403) THEN 0 ELSE authToken

AuthAfter(outcome, clearsOn403) ==
    /\ authToken' = TokenAfter(outcome, clearsOn403)
    /\ authHeader' = IF TokenAfter(outcome, clearsOn403) = 0 THEN 0 ELSE authHeader
    /\ authRecord' = IF outcome = "e401" THEN 0 ELSE authRecord
    /\ UNCHANGED <<isRefreshingToken, refreshSubscribers, refreshCalls, req,
                   refreshCount, refreshOK, burst, authEv, selfRefresh>>

\* localHistoryService.saveToHistory / importLearningPath: a new entry
\* under a locally generated id.
LocalCreate ==
    /\ nextLocal' = nextLocal + 1
    /\ local' = local \cup {<<"local", nextLocal + 1>>}

\* localHistoryService.deleteHistoryEntry(id)
LocalDelete(id) ==
    /\ local' = local \ {id}
    /\ UNCHANGED nextLocal

\* localHistoryService.updateHistoryEntry(id, data): the set of entries
\* stays as it is.
LocalUpdate(id) == UNCHANGED <<local, nextLocal>>

\* ---------------- getHistoryPreview ----------------

\* No auth token: localHistoryService.getHistoryPreview, no request.
PreviewLocal(k) ==
    /\ call = Idle
    /\ ~UseRemote
    /\ hev' = [NoEv EXCEPT !.op = "preview", !.phase = "local", !.key = k,
                           !.atCall = authToken # 0,
                           !.localCalled = TRUE, !.ret = <<"localPreview", Cardinality(local)>>]
    /\ UNCHANGED <<local, nextLocal, remote, nextRemote, cache, now, call>>
    /\ UNCHANGED <<streamVars, authVars, sideVars>>

\* A fresh cached entry: `return data`, no request.
PreviewCached(k) ==
    /\ call = Idle
    /\ UseRemote
    /\ CacheFresh(k)
    /\ hev' = [NoEv EXCEPT !.op = "preview", !.phase = "cache", !.key = k,
                           !.atCall = authToken # 0, !.tokenSet = TRUE, !.ret = cache[k].data]
    /\ UNCHANGED <<local, nextLocal, remote, nextRemote, cache, now, call>>
    /\ UNCHANGED <<streamVars, authVars, sideVars>>

\* No entry or a stale one: GET /learning-paths is sent.
PreviewStart(k) ==
    /\ call = Idle
    /\ UseRemote
    /\ ~CacheFresh(k)
    /\ call' = [Idle EXCEPT !.op = "preview", !.key = k, !.token = authHeader]
    /\ hev' = [NoEv EXCEPT !.op = "preview", !.phase = "start", !.key = k,
                           !.atCall = authToken # 0, !.tokenSet = TRUE, !.net = TRUE]
    /\ UNCHANGED <<local, nextLocal, remote, nextRemote, cache, now>>
    /\ UNCHANGED <<streamVars, authVars, sideVars>>

\* The request ends. hasEntries: response.data.entries is there.
PreviewDone(outcome, data, hasEntries) ==
    /\ call.op = "preview"
    /\ call' = Idle
    /\ IF outcome = "ok"
         THEN /\ cache' = IF hasEntries
                            THEN [cache EXCEPT ![call.key] =
                                     [data |-> data, timestamp |-> now]]
                            ELSE cache
              /\ hev' = [NoEv EXCEPT !.op = "preview", !.phase = "done", !.atCall = TRUE,
                                     !.key = call.key, !.outcome = outcome,
                                     !.tokenSet = authToken # 0, !.net = TRUE,
                                     !.ret = IF hasEntries THEN data ELSE NoData]
              /\ UNCHANGED authVars
         ELSE \* catch (serverError): clearAuthToken() on 401/403, then
              \* localHistoryService.getHistoryPreview
              /\ AuthAfter(outcome, TRUE)
              /\ hev' = [NoEv EXCEPT !.op = "preview", !.phase = "done", !.atCall = TRUE,
                                     !.key = call.key, !.outcome = outcome,
                                     !.tokenSet = TokenAfter(outcome, TRUE) # 0,
                                     !.localCalled = TRUE, !.net = TRUE,
                                     !.ret = <<"localPreview", Cardinality(local)>>]
              /\ UNCHANGED cache
    /\ UNCHANGED <<local, nextLocal, remote, nextRemote, now>>
    /\ UNCHANGED <<streamVars, sideVars>>

\* Time passes.
Tick ==
    /\ now < MaxTicks * TickMs
    /\ now' = now + TickMs
    /\ hev' = [NoEv EXCEPT !.op = "tick"]
    /\ UNCHANGED <<local, nextLocal, remote, nextRemote, cache, call>>
    /\ UNCHANGED <<streamVars, authVars, sideVars>>

\* setAuthToken(token) after a login as session t.
Login(t) ==
    /\ authToken # t
    /\ authToken' = t
    /\ authHeader' = t
    /\ hev' = [NoEv EXCEPT !.op = "login"]
    /\ UNCHANGED <<authRecord, isRefreshingToken, refreshSubscribers, refreshCalls, req,
                   refreshCount, refreshOK, burst, authEv, selfRefresh>>
    /\ UNCHANGED <<local, nextLocal, remote, nextRemote, cache, now, call>>
    /\ UNCHANGED <<streamVars, sideVars>>

\* ---------------- saveToHistory / importLearningPath ----------------
\* op is "save" or "import" (of JSON text that parses).

\* No auth token: localHistoryService.saveToHistory / importLearningPath.
CreateLocal(op) ==
    /\ call = Idle
    /\ ~UseRemote
    /\ nextLocal < MaxEntries
    /\ LocalCreate
    /\ hev' = [NoEv EXCEPT !.op = op, !.phase = "local", !.atCall = authToken # 0,
                           !.localCalled = TRUE,
                           !.ret = <<"local", nextLocal + 1>>]
    /\ UNCHANGED <<remote, nextRemote, cache, now, call>>
    /\ UNCHANGED <<streamVars, authVars, sideVars>>

\* Auth token set: POST /learning-paths is sent.
CreateStart(op) ==
    /\ call = Idle
    /\ UseRemote
    /\ nextLocal < MaxEntries /\ nextRemote < MaxEntries
    /\ call' = [Idle EXCEPT !.op = op]
    /\ hev' = [NoEv EXCEPT !.op = op, !.phase = "start", !.atCall = authToken # 0, !.tokenSet = TRUE, !.net = TRUE]
    /\ UNCHANGED <<local, nextLocal, remote, nextRemote, cache, now>>
    /\ UNCHANGED <<streamVars, authVars, sideVars>>

\* The POST ends: entry_id is response.data.path_id, or the catch falls
\* back to the Local History Store whatever the error is.
CreateDone(op, outcome) ==
    /\ call.op = op
    /\ call' = Idle
    /\ IF outcome = "ok"
         THEN /\ nextRemote' = nextRemote + 1
              /\ remote' = remote \cup {<<"server", nextRemote + 1>>}
              /\ hev' = [NoEv EXCEPT !.op = op, !.phase = "done", !.atCall = TRUE, !.outcome = outcome,
                                     !.tokenSet = authToken # 0, !.net = TRUE,
                                     !.ret = <<"server", nextRemote + 1>>]
              /\ UNCHANGED <<local, nextLocal>>
              /\ UNCHANGED authVars
         ELSE /\ AuthAfter(outcome, FALSE)
              /\ LocalCreate
              /\ hev' = [NoEv EXCEPT !.op = op, !.phase = "done", !.atCall = TRUE, !.outcome = outcome,
                                     !.tokenSet = TokenAfter(outcome, FALSE) # 0,
                                     !.localCalled = TRUE, !.net = TRUE,
                                     !.ret = <<"local", nextLocal + 1>>]
              /\ UNCHANGED <<remote, nextRemote>>
    /\ UNCHANGED <<cache, now>>
    /\ UNCHANGED <<streamVars, sideVars>>

\* ---------------- updateHistoryEntry / deleteHistoryEntry ----------------
\* op is "update" or "delete".

LocalModify(op, id) ==
    IF op = "delete" THEN LocalDelete(id) ELSE LocalUpdate(id)

\* No auth token: localHistoryService.updateHistoryEntry / deleteHistoryEntry.
ModifyLocal(op, id) ==
    /\ call = Idle
    /\ ~UseRemote
    /\ LocalModify(op, id)
    /\ hev' = [NoEv EXCEPT !.op = op, !.phase = "local", !.atCall = authToken # 0,
                           !.localCalled = TRUE]
    /\ UNCHANGED <<remote, nextRemote, cache, now, call>>
    /\ UNCHANGED <<streamVars, authVars, sideVars>>

\* Auth token set: PUT / DELETE /learning-paths/{id} is sent.
ModifyStart(op, id) ==
    /\ call = Idle
    /\ UseRemote
    /\ call' = [Idle EXCEPT !.op = op, !.id = id]
    /\ hev' = [NoEv EXCEPT !.op = op, !.phase = "start", !.atCall = authToken # 0, !.tokenSet = TRUE, !.net = TRUE]
    /\ UNCHANGED <<local, nextLocal, remote, nextRemote, cache, now>>
    /\ UNCHANGED <<streamVars, authVars, sideVars>>

\* The request ends (the server knows no id it has not issued). The catch
\* goes to the Local History Store only `if (!authToken)`, else it throws.
ModifyDone(op, outcome) ==
    /\ call.op = op
    /\ outcome = "ok" => call.id \in remote
    /\ call' = Idle
    /\ IF outcome = "ok"
         THEN /\ remote' = IF op = "delete" THEN remote \ {call.id} ELSE remote
              /\ hev' = [NoEv EXCEPT !.op = op, !.phase = "done", !.atCall = TRUE, !.outcome = outcome,
                                     !.tokenSet = authToken # 0, !.net = TRUE]
              /\ UNCHANGED <<local, nextLocal>>
              /\ UNCHANGED authVars
         ELSE /\ AuthAfter(outcome, FALSE)
              /\ IF FallbackAllowed(TokenAfter(outcome, FALSE))
                   THEN /\ LocalModify(op, call.id)
                        /\ hev' = [NoEv EXCEPT !.op = op, !.phase = "done", !.atCall = TRUE,
                                               !.outcome = outcome,
                                               !.tokenSet = TokenAfter(outcome, FALSE) # 0,
                                               !.localCalled = TRUE, !.net = TRUE]
                   ELSE /\ hev' = [NoEv EXCEPT !.op = op, !.phase = "done", !.atCall = TRUE,
                                               !.outcome = outcome,
                                               !.tokenSet = TokenAfter(outcome, FALSE) # 0,
                                               !.threw = TRUE, !.net = TRUE]
                        /\ UNCHANGED <<local, nextLocal>>
              /\ UNCHANGED remote
    /\ UNCHANGED <<nextRemote, cache, now>>
    /\ UNCHANGED <<streamVars, sideVars>>

\* ---------------- getHistoryEntry ----------------

\* localHistoryService.getHistoryEntry(id): the entry, or nothing.
LocalGet(id) == IF id \in local THEN id ELSE NoData

\* No auth token: localHistoryService.getHistoryEntry, no request.
GetLocal(id) ==
    /\ call = Idle
    /\ ~UseRemote
    /\ hev' = [NoEv EXCEPT !.op = "get", !.phase = "local", !.atCall = authToken # 0,
                           !.localCalled = TRUE,
                           !.ret = LocalGet(id)]
    /\ UNCHANGED <<local, nextLocal, remote, nextRemote, cache, now, call>>
    /\ UNCHANGED <<streamVars, authVars, sideVars>>

\* Auth token set: GET /learning-paths/{id} is sent.
GetStart(id) ==
    /\ call = Idle
    /\ UseRemote
    /\ call' = [Idle EXCEPT !.op = "get", !.id = id]
    /\ hev' = [NoEv EXCEPT !.op = "get", !.phase = "start", !.atCall = authToken # 0,
                           !.tokenSet = TRUE, !.net = TRUE]
    /\ UNCHANGED <<local, nextLocal, remote, nextRemote, cache, now>>
    /\ UNCHANGED <<streamVars, authVars, sideVars>>

\* `localEntry && localEntry.entry`: the fallback of getHistoryEntry found
\* the entry in the Local History Store.
FoundLocally_Always(id) == TRUE

FoundLocally(id) == LocalGet(id) # NoData

\* The GET ends. Its catch clears the token on 401/403, looks the id up in
\* the Local History Store and throws 'Learning path not found' when it is
\* not there either.
GetDone(outcome) ==
    /\ call.op = "get"
    /\ outcome = "ok" => call.id \in remote
    /\ call' = Idle
    /\ IF outcome = "ok"
         THEN /\ hev' = [NoEv EXCEPT !.op = "get", !.phase = "done", !.atCall = TRUE,
                                     !.outcome = outcome, !.tokenSet = authToken # 0,
                                     !.net = TRUE, !.ret = call.id]
              /\ UNCHANGED authVars
         ELSE /\ AuthAfter(outcome, TRUE)
              /\ hev' = [NoEv EXCEPT !.op = "get", !.phase = "done", !.atCall = TRUE,
                                     !.outcome = outcome,
                                     !.tokenSet = TokenAfter(outcome, TRUE) # 0,
                                     !.localCalled = TRUE, !.net = TRUE,
                                     !.threw = ~FoundLocally(call.id),
                                     !.ret = IF FoundLocally(call.id)
                                               THEN LocalGet(call.id) ELSE NoData]
    /\ UNCHANGED <<local, nextLocal, remote, nextRemote, cache, now>>
    /\ UNCHANGED <<streamVars, sideVars>>

\* ---------------- exportHistory ----------------

\* localHistoryService.getLocalHistory(): every local entry.
LocalHistory == <<"localHistory", Cardinality(local)>>

\* No auth token: localHistoryService.getLocalHistory, no request.
ExportLocal ==
    /\ call = Idle
    /\ ~UseRemote
    /\ hev' = [NoEv EXCEPT !.op = "export", !.phase = "local", !.atCall = authToken # 0,
                           !.localCalled = TRUE,
                           !.ret = LocalHistory]
    /\ UNCHANGED <<local, nextLocal, remote, nextRemote, cache, now, call>>
    /\ UNCHANGED <<streamVars, authVars, sideVars>>

\* Auth token set: GET /learning-paths?per_page=1000 is sent.
ExportStart ==
    /\ call = Idle
    /\ UseRemote
    /\ call' = [Idle EXCEPT !.op = "export"]
    /\ hev' = [NoEv EXCEPT !.op = "export", !.phase = "start", !.atCall = authToken # 0,
                           !.tokenSet = TRUE, !.net = TRUE]
    /\ UNCHANGED <<local, nextLocal, remote, nextRemote, cache, now>>
    /\ UNCHANGED <<streamVars, authVars, sideVars>>

\* Whether the catch of exportHistory clears the auth token on a 403: it
\* has no status check at all.
ExportClearsOn403_Yes == TRUE

ExportClearsOn403 == FALSE

\* The GET ends. hasEntries: response.data.entries is there (its .map
\* throws into the catch otherwise). The catch returns getLocalHistory().
ExportDone(outcome, hasEntries) ==
    /\ call.op = "export"
    /\ call' = Idle
    /\ IF outcome = "ok" /\ hasEntries
         THEN /\ hev' = [NoEv EXCEPT !.op = "export", !.phase = "done", !.atCall = TRUE,
                                     !.outcome = outcome, !.tokenSet = authToken # 0,
                                     !.net = TRUE,
                                     !.ret = <<"remoteHistory", Cardinality(remote)>>]
              /\ UNCHANGED authVars
         ELSE /\ AuthAfter(outcome, ExportClearsOn403)
              /\ hev' = [NoEv EXCEPT !.op = "export", !.phase = "done", !.atCall = TRUE,
                                     !.outcome = IF outcome = "ok" THEN "malformed"
                                                                   ELSE outcome,
                                     !.tokenSet = TokenAfter(outcome, ExportClearsOn403) # 0,
                                     !.localCalled = TRUE, !.net = TRUE,
                                     !.ret = LocalHistory]
    /\ UNCHANGED <<local, nextLocal, remote, nextRemote, cache, now>>
    /\ UNCHANGED <<streamVars, sideVars>>

\* ---------------- clearHistory ----------------

\* Whether clearHistory looks at the auth token before it goes to the Local
\* History Store: it does not ("We don't have a bulk delete API").
ClearUsesLocal_OnlyWithoutToken == authToken = 0

ClearUsesLocal == TRUE

\* localHistoryService.clearHistory(), whatever the auth token is.
ClearHistory ==
    /\ call = Idle
    /\ ClearUsesLocal
    /\ local' = {}
    /\ hev' = [NoEv EXCEPT !.op = "clear", !.phase = "local",
                           !.atCall = authToken # 0, !.tokenSet = authToken # 0,
                           !.localCalled = TRUE]
    /\ UNCHANGED <<nextLocal, remote, nextRemote, cache, now, call>>
    /\ UNCHANGED <<streamVars, authVars, sideVars>>

\* ---------------- importLearningPath of text that is not JSON ----------------

\* JSON.parse throws before the token is looked at; the catch hands the text
\* to localHistoryService.importLearningPath, which stores nothing.
ImportMalformed ==
    /\ call = Idle
    /\ hev' = [NoEv EXCEPT !.op = "import", !.phase = "invalid",
                           !.atCall = authToken # 0, !.tokenSet = authToken # 0,
                           !.localCalled = TRUE, !.threw = TRUE]
    /\ UNCHANGED <<local, nextLocal, remote, nextRemote, cache, now, call>>
    /\ UNCHANGED <<streamVars, authVars, sideVars>>

\* ---------------- migrateLearningPaths ----------------

MigratedIds == {<<"migrated", n>> : n \in 1..MaxEntries}

\* The server's copies of the local entries POST /learning-paths/migrate was
\* sent (under the path_id processedPaths gave them).
MigratedCopies(paths) == {<<"migrated", id[2]>> : id \in paths}

\* What migrateLearningPaths does to the Local History Store once the
\* server has answered: nothing, it returns response.data.
LocalAfterMigrate_Removed(paths) == local \ paths

LocalAfterMigrate(paths) == local

\* migrateLearningPaths(): the entries of getLocalHistory() are posted to
\* /learning-paths/migrate, with the Authorization header if one is set.
MigrateStart ==
    /\ call = Idle
    /\ call' = [Idle EXCEPT !.op = "migrate", !.paths = local, !.hdr = authHeader # 0]
    /\ hev' = [NoEv EXCEPT !.op = "migrate", !.phase = "start",
                           !.atCall = authToken # 0, !.tokenSet = authToken # 0,
                           !.localCalled = TRUE, !.net = TRUE]
    /\ UNCHANGED <<local, nextLocal, remote, nextRemote, cache, now>>
    /\ UNCHANGED <<streamVars, authVars, sideVars>>

\* The POST ends (the server accepts it only with a header): response.data
\* is returned, or the error is thrown again.
MigrateDone(outcome) ==
    /\ call.op = "migrate"
    /\ outcome = "ok" => call.hdr
    /\ call' = Idle
    /\ IF outcome = "ok"
         THEN /\ remote' = remote \cup MigratedCopies(call.paths)
              /\ local' = LocalAfterMigrate(call.paths)
              /\ hev' = [NoEv EXCEPT !.op = "migrate", !.phase = "done", !.atCall = TRUE,
                                     !.outcome = outcome, !.tokenSet = authToken # 0,
                                     !.net = TRUE]
              /\ UNCHANGED authVars
         ELSE /\ AuthAfter(outcome, FALSE)
              /\ hev' = [NoEv EXCEPT !.op = "migrate", !.phase = "done", !.atCall = TRUE,
                                     !.outcome = outcome,
                                     !.tokenSet = TokenAfter(outcome, FALSE) # 0,
                                     !.threw = TRUE, !.net = TRUE]
              /\ UNCHANGED <<local, remote>>
    /\ UNCHANGED <<nextLocal, nextRemote, cache, now>>
    /\ UNCHANGED <<streamVars, sideVars>>

\* The page after loading: nothing stored, nothing cached, no call made.
InitHist ==
    /\ local = {}
    /\ nextLocal = 0
    /\ remote = {}
    /\ nextRemote = 0
    /\ cache = [k \in Keys |-> NoEntry]
    /\ now = 0
    /\ call = Idle
    /\ hev = NoEv

NextHistory ==
    \/ \E op \in {"save", "import"} : CreateLocal(op)
    \/ \E op \in {"save", "import"} : CreateStart(op)
    \/ \E op \in {"save", "import"}, outcome \in Outcomes : CreateDone(op, outcome)
    \/ \E op \in {"update", "delete"}, id \in LocalIds \cup ServerIds : ModifyLocal(op, id)
    \/ \E op \in {"update", "delete"}, id \in LocalIds \cup ServerIds : ModifyStart(op, id)
    \/ \E op \in {"update", "delete"}, outcome \in Outcomes : ModifyDone(op, outcome)
    \/ \E t \in Sessions : Login(t)
    \/ ClearAuthToken

NextCache ==
    \/ \E k \in Keys : PreviewLocal(k)
    \/ \E k \in Keys : PreviewCached(k)
    \/ \E k \in Keys : PreviewStart(k)
    \/ \E outcome \in Outcomes, data \in PreviewData, hasEntries \in BOOLEAN :
          PreviewDone(outcome, data, hasEntries)
    \/ Tick
    \/ \E t \in Sessions : Login(t)
    \/ ClearAuthToken

\* getHistoryPreview() with its default arguments.
DefaultKey == "history_preview_creation_date_null_null"

\* response.data of GET /learning-paths when the server holds the paths S
\* of the user: the payload that lists exactly S (S as a bit set).
RECURSIVE EntriesCode(_)
EntriesCode(S) ==
    IF S = {} THEN 0
    ELSE LET e == CHOOSE x \in S : TRUE IN 2 ^ (e[2] - 1) + EntriesCode(S \ {e})

ServerPreview == <<"payload", EntriesCode(remote)>>

\* response.data of GET /learning-paths for a request that carried the
\* Authorization header of session t: that session's history.
SessionPreview(t) == <<"payload", t>>

\* Previews and writes of an authenticated session whose remote calls
\* succeed or fail without an auth error.
NextFresh ==
    \/ PreviewCached(DefaultKey)
    \/ PreviewStart(DefaultKey)
    \/ \E outcome \in {"ok", "error"}, hasEntries \in BOOLEAN :
          PreviewDone(outcome, ServerPreview, hasEntries)
    \/ Tick
    \/ \E op \in {"save", "import"} : CreateStart(op)
    \/ \E op \in {"save", "import"}, outcome \in {"ok", "error"} : CreateDone(op, outcome)
    \/ \E op \in {"update", "delete"}, id \in ServerIds : ModifyStart(op, id)
    \/ \E op \in {"update", "delete"}, outcome \in {"ok", "error"} : ModifyDone(op, outcome)

\* Previews across logout and login, each answered with the history of
\* the session the request was sent for.
NextSession ==
    \/ \E k \in Keys : PreviewLocal(k)
    \/ \E k \in Keys : PreviewCached(k)
    \/ \E k \in Keys : PreviewStart(k)
    \/ \E outcome \in Outcomes, hasEntries \in BOOLEAN :
          PreviewDone(outcome, SessionPreview(call.token), hasEntries)
    \/ Tick
    \/ \E t \in Sessions : Login(t)
    \/ ClearAuthToken

\* The ids a caller may pass to the facade.
AllIds == LocalIds \cup ServerIds \cup MigratedIds

\* Every operation of the facade.
NextFacade ==
    \/ PreviewLocal(DefaultKey)
    \/ PreviewCached(DefaultKey)
    \/ PreviewStart(DefaultKey)
    \/ \E outcome \in Outcomes, hasEntries \in BOOLEAN :
          PreviewDone(outcome, <<"payload", 1>>, hasEntries)
    \/ \E id \in LocalIds \cup ServerIds : GetLocal(id)
    \/ \E id \in LocalIds \cup ServerIds : GetStart(id)
    \/ \E outcome \in Outcomes : GetDone(outcome)
    \/ \E op \in {"save", "import"} : CreateLocal(op)
    \/ \E op \in {"save", "import"} : CreateStart(op)
    \/ \E op \in {"save", "import"}, outcome \in Outcomes : CreateDone(op, outcome)
    \/ ImportMalformed
    \/ \E op \in {"update", "delete"}, id \in LocalIds \cup ServerIds : ModifyLocal(op, id)
    \/ \E op \in {"update", "delete"}, id \in LocalIds \cup ServerIds : ModifyStart(op, id)
    \/ \E op \in {"update", "delete"}, outcome \in Outcomes : ModifyDone(op, outcome)
    \/ ExportLocal
    \/ ExportStart
    \/ \E outcome \in Outcomes, hasEntries \in BOOLEAN : ExportDone(outcome, hasEntries)
    \/ ClearHistory
    \/ \E t \in Sessions : Login(t)
    \/ ClearAuthToken

\* The writes of the facade and migrateLearningPaths.
NextMigrate ==
    \/ \E op \in {"save", "import"} : CreateLocal(op)
    \/ \E op \in {"save", "import"} : CreateStart(op)
    \/ \E op \in {"save", "import"}, outcome \in Outcomes : CreateDone(op, outcome)
    \/ \E op \in {"update", "delete"}, id \in AllIds : ModifyLocal(op, id)
    \/ \E op \in {"update", "delete"}, id \in AllIds : ModifyStart(op, id)
    \/ \E op \in {"update", "delete"}, outcome \in Outcomes : ModifyDone(op, outcome)
    \/ ClearHistory
    \/ MigrateStart
    \/ \E outcome \in Outcomes : MigrateDone(outcome)
    \/ \E t \in Sessions : Login(t)
    \/ ClearAuthToken

\* =================================================================
\* Credential store: saveApiTokens / getSavedApiTokens / clearSavedApiTokens,
\* authenticateApiKeys, and the older saveApiKeys / getSavedApiKeys /
\* clearSavedApiKeys. Every sessionStorage call is taken to succeed.
\* =================================================================

GOOGLE_KEY_TOKEN_STORAGE == "learning_path_google_key_token"
PPLX_KEY_TOKEN_STORAGE == "learning_path_pplx_key_token"
REMEMBER_TOKENS_STORAGE == "learning_path_remember_tokens"
OPENAI_KEY_STORAGE == "learning_path_openai_key"
TAVILY_KEY_STORAGE == "learning_path_tavily_key"
REMEMBER_KEYS_STORAGE == "learning_path_remember_keys"

\* The storage keys of the two families of credentials: the two values and
\* the remember flag.
Family ==
    [tokens |-> <<GOOGLE_KEY_TOKEN_STORAGE, PPLX_KEY_TOKEN_STORAGE, REMEMBER_TOKENS_STORAGE>>,
     keys   |-> <<OPENAI_KEY_STORAGE, TAVILY_KEY_STORAGE, REMEMBER_KEYS_STORAGE>>]

Families == {"tokens", "keys"}

CredKeys == {Family[f][n] : f \in Families, n \in 1..3}

\* The credentials a caller passes: null or a key / token.
CredArgs == {"null", "secret"}

\* `value || ''` as setItem stores it.
OrEmpty(v) == IF v = "null" THEN "" ELSE v

\* `sessionStorage.getItem(key) || null`
OrNull(v) == IF v \in {"absent", ""} THEN "null" ELSE v

NoCredEv ==
    [op |-> "none", family |-> "none", remember |-> FALSE, first |-> "null",
     second |-> "null", stored |-> FALSE]

\* `if (remember)` of saveApiTokens / saveApiKeys: whether the values are
\* written (otherwise the three keys are removed).
Persist_Always(remember) == TRUE

Persist(remember) == remember

\* clearSavedApiTokens / clearSavedApiKeys on the storage st.
Cleared(st, f) ==
    [k \in CredKeys |-> IF k \in {Family[f][1], Family[f][2], Family[f][3]}
                          THEN "absent" ELSE st[k]]

\* saveApiTokens / saveApiKeys on the storage st.
Saved(st, f, first, second, remember) ==
    IF Persist(remember)
      THEN [st EXCEPT ![Family[f][1]] = OrEmpty(first),
                      ![Family[f][2]] = OrEmpty(second),
                      ![Family[f][3]] = "true"]
      ELSE Cleared(st, f)

\* saveApiTokens(first, second, remember) / saveApiKeys(...)
SaveCredentials(f, first, second, remember) ==
    /\ session' = Saved(session, f, first, second, remember)
    /\ credEv' = [NoCredEv EXCEPT !.op = "save", !.family = f, !.remember = remember,
                                  !.first = first, !.second = second]
    /\ UNCHANGED credCall
    /\ UNCHANGED <<streamVars, authVars, histVars, tripVars, pageVars>>

\* getSavedApiTokens() / getSavedApiKeys()
GetSavedCredentials(f) ==
    /\ credEv' = IF session[Family[f][3]] = "true"
                   THEN [NoCredEv EXCEPT !.op = "get", !.family = f, !.remember = TRUE,
                                         !.first = OrNull(session[Family[f][1]]),
                                         !.second = OrNull(session[Family[f][2]])]
                   ELSE [NoCredEv EXCEPT !.op = "get", !.family = f]
    /\ UNCHANGED <<session, credCall>>
    /\ UNCHANGED <<streamVars, authVars, histVars, tripVars, pageVars>>

\* clearSavedApiTokens() / clearSavedApiKeys()
ClearSavedCredentials(f) ==
    /\ session' = Cleared(session, f)
    /\ credEv' = [NoCredEv EXCEPT !.op = "clear", !.family = f]
    /\ UNCHANGED credCall
    /\ UNCHANGED <<streamVars, authVars, histVars, tripVars, pageVars>>

\* authenticateApiKeys(googleKey, pplxKey, remember): POST /auth/api-keys.
AuthenticateStart(remember) ==
    /\ credCall = "idle"
    /\ credCall' = IF remember THEN "remember" ELSE "forget"
    /\ credEv' = [NoCredEv EXCEPT !.op = "authStart", !.family = "tokens",
                                  !.remember = remember]
    /\ UNCHANGED session
    /\ UNCHANGED <<streamVars, authVars, histVars, tripVars, pageVars>>

\* The POST ends: with the tokens of the response (null for a key the server
\* did not accept), or with an error that is thrown on.
AuthenticateDone(ok, google_key_token, pplx_key_token) ==
    /\ credCall # "idle"
    /\ credCall' = "idle"
    /\ IF ok /\ credCall = "remember"
            /\ (google_key_token # "null" \/ pplx_key_token # "null")
         THEN session' = Saved(session, "tokens", google_key_token, pplx_key_token, TRUE)
         ELSE UNCHANGED session
    /\ credEv' = [NoCredEv EXCEPT !.op = IF ok THEN "authDone" ELSE "authFailed",
                                  !.family = "tokens",
                                  !.remember = (credCall = "remember"),
                                  !.first = IF ok THEN google_key_token ELSE "null",
                                  !.second = IF ok THEN pplx_key_token ELSE "null",
                                  !.stored = (ok /\ credCall = "remember"
                                              /\ (google_key_token # "null"
                                                  \/ pplx_key_token # "null"))]
    /\ UNCHANGED <<streamVars, authVars, histVars, tripVars, pageVars>>

\* The page after loading: nothing in sessionStorage.
InitCred ==
    /\ session = [k \in CredKeys |-> "absent"]
    /\ credCall = "idle"
    /\ credEv = NoCredEv

NextCred ==
    \/ \E f \in Families, first \in CredArgs, second \in CredArgs, remember \in BOOLEAN :
          SaveCredentials(f, first, second, remember)
    \/ \E f \in Families : GetSavedCredentials(f)
    \/ \E f \in Families : ClearSavedCredentials(f)
    \/ \E remember \in BOOLEAN : AuthenticateStart(remember)
    \/ \E ok \in BOOLEAN, google_key_token \in CredArgs, pplx_key_token \in CredArgs :
          AuthenticateDone(ok, google_key_token, pplx_key_token)

\* =================================================================
\* Export and import under an authenticated session whose requests
\* succeed: what saveToHistory, updateHistoryEntry, exportHistory and
\* importLearningPath send, and what the server then holds
\* =================================================================

Topics == {"A"}

TagNames == {"t"}

\* The body of POST /learning-paths as saveToHistory / importLearningPath
\* build it from the parsed document: its topic, or 'Untitled'; no tags; not
\* a favorite.
DocTopic(doc) == IF "topic" \in DOMAIN doc THEN doc.topic ELSE "Untitled"

PostBody(doc, source) ==
    [topic |-> DocTopic(doc), tags |-> {}, favorite |-> FALSE, source |-> source]

NoExport == [made |-> FALSE, entries |-> <<>>]

NoTripEv == [op |-> "none", created |-> <<>>]

\* saveToHistory(learningPath) of a generated path with the topic given.
TripSave(topic) ==
    /\ Len(serverPaths) < MaxPaths
    /\ serverPaths' = Append(serverPaths, PostBody([topic |-> topic], "generated"))
    /\ tripEv' = [op |-> "save", created |-> <<PostBody([topic |-> topic], "generated")>>]
    /\ UNCHANGED exported
    /\ UNCHANGED <<streamVars, authVars, histVars, credVars, pageVars>>

\* updateHistoryEntry(id, {tags, favorite}) of the i-th path.
TripUpdate(i, tags, favorite) ==
    /\ i \in 1..Len(serverPaths)
    /\ serverPaths' = [serverPaths EXCEPT ![i].tags = tags, ![i].favorite = favorite]
    /\ tripEv' = [op |-> "update", created |-> <<>>]
    /\ UNCHANGED exported
    /\ UNCHANGED <<streamVars, authVars, histVars, credVars, pageVars>>

\* exportHistory(): { entries: <every path of the server>, last_updated }.
TripExport ==
    /\ exported' = [made |-> TRUE, entries |-> serverPaths]
    /\ tripEv' = [op |-> "export", created |-> <<>>]
    /\ UNCHANGED serverPaths
    /\ UNCHANGED <<streamVars, authVars, histVars, credVars, pageVars>>

\* importLearningPath(jsonData) where jsonData is the JSON text of the last
\* export: JSON.parse gives the export object back, which has the fields
\* entries and last_updated and no topic; one POST is made for it.
TripImportExport ==
    /\ exported.made
    /\ Len(serverPaths) <= MaxPaths
    /\ serverPaths' = Append(serverPaths, PostBody([entries |-> exported.entries], "imported"))
    /\ tripEv' = [op |-> "importExport",
                  created |-> <<PostBody([entries |-> exported.entries], "imported")>>]
    /\ UNCHANGED exported
    /\ UNCHANGED <<streamVars, authVars, histVars, credVars, pageVars>>

\* importLearningPath(jsonData) where jsonData is the JSON text of one
\* exported entry.
TripImportEntry(i) ==
    /\ exported.made
    /\ i \in 1..Len(exported.entries)
    /\ Len(serverPaths) <= MaxPaths
    /\ serverPaths' = Append(serverPaths, PostBody(exported.entries[i], "imported"))
    /\ tripEv' = [op |-> "importEntry",
                  created |-> <<PostBody(exported.entries[i], "imported")>>]
    /\ UNCHANGED exported
    /\ UNCHANGED <<streamVars, authVars, histVars, credVars, pageVars>>

\* The server's history before any save: empty, and nothing exported.
InitTrip ==
    /\ serverPaths = <<>>
    /\ exported = NoExport
    /\ tripEv = NoTripEv

NextTrip ==
    \/ \E topic \in Topics : TripSave(topic)
    \/ \E i \in 1..Len(serverPaths), tags \in SUBSET TagNames, favorite \in BOOLEAN :
          TripUpdate(i, tags, favorite)
    \/ TripExport
    \/ TripImportExport
    \/ \E i \in 1..Len(exported.entries) : TripImportEntry(i)

\* =================================================================
\* GeneratorPage: a later generation and the progress it displays
\* =================================================================

\* The progress texts the server sends: one for every rule of the mapping,
\* the batch text with every batch number and without one, text no rule
\* matches (the empty text included), and text two rules match.
ProgressTexts ==
    {<<Phrase("Generated"), Phrase("search queries")>>,
     <<Phrase("Executed"), Phrase("web searches")>>,
     <<Phrase("Created learning path with")>>,
     <<Phrase("Planned"), Phrase("submodules")>>,
     <<Phrase("Organized"), Phrase("submodules into")>>,
     <<Phrase("Processing submodule batch")>>,
     <<Phrase("Completed batch"), Digits(2), Phrase("with")>>,
     <<Phrase("Finalized")>>,
     <<Phrase("Finalized"), Phrase("Generated"), Phrase("search queries")>>,
     <<Phrase("Generated")>>,
     <<Phrase("other")>>,
     <<>>}
    \cup {<<Phrase("Processing submodule batch"), Digits(n), Phrase("with")>> : n \in 0..MaxBatch}

\* handleSubmit for one more generation in the same mount: the progress
\* state is reset, and connectToProgressUpdates closes the handle of the
\* call made before and calls getProgressUpdates with a callback that
\* closes over the `progressUpdates` of this render.
HandleSubmit ==
    /\ UNCHANGED <<clientVars, authVars, histVars, credVars, tripVars, tagVars>>
    /\ laterCall = "none"
    /\ es' = CloseCurrent(es)
    /\ closeCalled' = TRUE
    /\ lastEv' = "submit"
    /\ lastCb' = "none"
    /\ laterCall' = "live"
    /\ closureUpdates' = progressUpdates
    /\ progressUpdates' = <<>>
    /\ progressPercentage' = 10

\* The onMessage callback of the page's latest call, invoked by the stream
\* client with a progress event whose message is msg.
DeliverProgress(msg) ==
    /\ UNCHANGED <<clientVars, es, lastCb, closeCalled, authVars, histVars, credVars,
                   tripVars, tagVars, closureUpdates, laterCall>>
    /\ Len(closureUpdates) + Len(progressUpdates) < MaxUpdates
    /\ lastEv' = "deliver"
    /\ progressUpdates' = PageOnMessage(progressUpdates, msg)
    /\ progressPercentage' =
          calculateProgress(PercentageArgument(closureUpdates,
                                               PageOnMessage(progressUpdates, msg)))

NextPage ==
    \/ NextStream
    \/ HandleSubmit

NextProgress ==
    \/ HandleSubmit
    \/ \E msg \in ProgressTexts : DeliverProgress(msg)

\* =================================================================
\* Tag lists: the generator form, the save dialog, a history entry card
\* =================================================================

\* What a user types into a tag field: text over a letter and the blank.
TagInputs ==
    {<<>>, <<" ">>, <<" ", " ">>, <<"a">>, <<" ", "a">>, <<"a", " ">>, <<"b">>,
     <<" ", "b", " ">>}

\* String.prototype.trim
RECURSIVE TrimStart(_)
TrimStart(s) == IF s # <<>> /\ Head(s) = " " THEN TrimStart(Tail(s)) ELSE s

RECURSIVE TrimEnd(_)
TrimEnd(s) ==
    IF s # <<>> /\ s[Len(s)] = " " THEN TrimEnd(SubSeq(s, 1, Len(s) - 1)) ELSE s

Trim(s) == TrimEnd(TrimStart(s))

\* tags.includes(tag)
TagIncluded_Never(tags, tag) == FALSE

TagIncluded(tags, tag) == \E i \in 1..Len(tags) : tags[i] = tag

\* `newTag.trim() && !tags.includes(newTag.trim())`
CanAddTag(tags, newTag) == Trim(newTag) # <<>> /\ ~TagIncluded(tags, Trim(newTag))

\* tags.filter(tag => tag !== tagToDelete)
WithoutTag(tags, tagToDelete) ==
    LET Keep(tag) == tag # tagToDelete IN SelectSeq(tags, Keep)

\* handleAddTag of the generator form.
HandleAddTag(newTag) ==
    /\ UNCHANGED <<streamVars, authVars, histVars, credVars, tripVars, closureUpdates,
                   laterCall, saveDialogTags, entryTags, storedTags>>
    /\ CanAddTag(initialTags, newTag)
    /\ initialTags' = Append(initialTags, Trim(newTag))

\* handleDeleteTag of the generator form, from the chip of tag i.
HandleDeleteTag(i) ==
    /\ UNCHANGED <<streamVars, authVars, histVars, credVars, tripVars, closureUpdates,
                   laterCall, saveDialogTags, entryTags, storedTags>>
    /\ i \in 1..Len(initialTags)
    /\ initialTags' = WithoutTag(initialTags, initialTags[i])

\* handleAddDialogTag of the save dialog.
HandleAddDialogTag(newTag) ==
    /\ UNCHANGED <<streamVars, authVars, histVars, credVars, tripVars, closureUpdates,
                   laterCall, initialTags, entryTags, storedTags>>
    /\ CanAddTag(saveDialogTags, newTag)
    /\ saveDialogTags' = Append(saveDialogTags, Trim(newTag))

\* handleDeleteDialogTag of the save dialog, from the chip of tag i.
HandleDeleteDialogTag(i) ==
    /\ UNCHANGED <<streamVars, authVars, histVars, credVars, tripVars, closureUpdates,
                   laterCall, initialTags, entryTags, storedTags>>
    /\ i \in 1..Len(saveDialogTags)
    /\ saveDialogTags' = WithoutTag(saveDialogTags, saveDialogTags[i])

\* TagsInput.handleAddTag on a history entry card: HistoryEntryCard
\* .handleAddTag appends to the entry.tags of its render and
\* handleUpdateTags stores the list (ok) or fails.
CardAddTag(newTag, ok) ==
    /\ UNCHANGED <<streamVars, authVars, histVars, credVars, tripVars, closureUpdates,
                   laterCall, initialTags, saveDialogTags, entryTags>>
    /\ CanAddTag(entryTags, newTag)
    /\ storedTags' = IF ok THEN Append(entryTags, Trim(newTag)) ELSE storedTags

\* HistoryEntryCard.handleDeleteTag, from the chip of tag i.
CardDeleteTag(i, ok) ==
    /\ UNCHANGED <<streamVars, authVars, histVars, credVars, tripVars, closureUpdates,
                   laterCall, initialTags, saveDialogTags, entryTags>>
    /\ i \in 1..Len(entryTags)
    /\ storedTags' = IF ok THEN WithoutTag(entryTags, entryTags[i]) ELSE storedTags

\* loadHistory() has fetched the entries and the card is rendered again.
LoadHistory ==
    /\ UNCHANGED <<streamVars, authVars, histVars, credVars, tripVars, closureUpdates,
                   laterCall, initialTags, saveDialogTags, storedTags>>
    /\ entryTags # storedTags
    /\ entryTags' = storedTags

\* A fresh mount of the page: no later call, empty tag lists.
InitPage ==
    /\ closureUpdates = <<>>
    /\ laterCall = "none"
    /\ initialTags = <<>>
    /\ saveDialogTags = <<>>
    /\ entryTags = <<>>
    /\ storedTags = <<>>

NextTags ==
    \/ \E newTag \in TagInputs : HandleAddTag(newTag)
    \/ \E i \in 1..Len(initialTags) : HandleDeleteTag(i)
    \/ \E newTag \in TagInputs : HandleAddDialogTag(newTag)
    \/ \E i \in 1..Len(saveDialogTags) : HandleDeleteDialogTag(i)
    \/ \E newTag \in TagInputs, ok \in BOOLEAN : CardAddTag(newTag, ok)
    \/ \E i \in 1..Len(entryTags), ok \in BOOLEAN : CardDeleteTag(i, ok)
    \/ LoadHistory

\* =================================================================
\* Specifications
\* =================================================================

Init == InitStream /\ InitAuth /\ InitHist /\ InitCred /\ InitTrip /\ InitPage

SpecStream == Init /\ [][NextStream]_vars

SpecAuth == Init /\ [][NextAuth]_vars

SpecHistory == Init /\ [][NextHistory]_vars

SpecCache == Init /\ [][NextCache]_vars

SpecFacade == Init /\ [][NextFacade]_vars

SpecMigrate == Init /\ [][NextMigrate]_vars

SpecCred == Init /\ [][NextCred]_vars

SpecTrip == Init /\ [][NextTrip]_vars

SpecPage == Init /\ [][NextPage]_vars

SpecProgress == Init /\ [][NextProgress]_vars

SpecTags == Init /\ [][NextTags]_vars

SpecFresh == Init /\ [][NextFresh]_vars

SpecSession == Init /\ [][NextSession]_vars

\* =================================================================
\* Properties of getProgressUpdates
\* =================================================================

\* C1 (as amended): up to MAX_RETRIES (3) consecutive transport errors are
\* each answered by scheduling one reconnect and no terminal error; the
\* 4th consecutive failure invokes onError with the lost-connection error,
\* schedules nothing and leaves no live connection; a 5th connection is
\* never attempted.
C1_ReconnectBound ==
    /\ consecFails <= MAX_RETRIES + 1
    /\ attempts <= MAX_RETRIES + 1
    /\ (lastEv = "fail" /\ consecFails <= MAX_RETRIES)
          => (lastCb = "none" /\ timers = 1 /\ retryCount = consecFails)
    /\ (lastEv = "fail" /\ consecFails = MAX_RETRIES + 1)
          => (lastCb = "onErrorLost" /\ timers = 0 /\ LiveSet = {})
    /\ calls["onErrorLost"] > 0
          => (calls["onErrorLost"] = 1 /\ timers = 0 /\ LiveSet = {})

\* C1 witness: the terminal error was raised on the 4th connection.
C1_Witness ==
    /\ lastEv = "fail" /\ lastCb = "onErrorLost"
    /\ consecFails = MAX_RETRIES + 1 /\ attempts = MAX_RETRIES + 1

\* C1 as stated: the 3rd consecutive failure raises the terminal error and
\* no 4th connection attempt is made.
C1_Original ==
    /\ attempts <= MAX_RETRIES
    /\ (lastEv = "fail" /\ consecFails = MAX_RETRIES)
          => (lastCb = "onErrorLost" /\ timers = 0)

\* C2 as stated: once close() was called on the handle, no connect() and no
\* callback runs and no connection is live.
C2_CloseIsFinal ==
    closeCalled => (~postClose /\ LiveSet = {})

\* C3: an event with complete=true invokes onComplete exactly once and
\* closes the connection; afterwards no callback and no connect() runs, no
\* timer is pending and no connection is live.
C3_CompleteOnce ==
    /\ ~completeSeen => calls["onComplete"] = 0
    /\ completeSeen =>
          /\ calls["onComplete"] = 1
          /\ ~postComplete
          /\ timers = 0
          /\ LiveSet = {}

\* C3 witness: completion after progress messages, with the handle closed
\* afterwards.
C3_Witness ==
    /\ completeSeen /\ calls["onMessage"] > 0 /\ calls["onComplete"] = 1
    /\ lastEv = "close"

\* C4 (as amended): onopen and every parsed message leave retryCount at
\* zero, and after such a reset the terminal error is raised by the 4th
\* consecutive failure, not earlier and not later.
C4_ResetThenFourth ==
    /\ lastEv \in {"open", "msg", "errmsg", "complete"} => retryCount = 0
    /\ lastCb = "onErrorLost" => consecFails = MAX_RETRIES + 1
    /\ (lastEv = "fail" /\ consecFails = MAX_RETRIES + 1) => lastCb = "onErrorLost"
    /\ (lastEv = "fail" /\ consecFails <= MAX_RETRIES) => retryCount = consecFails

\* C4 witness: fail, fail, succeed, then four failures, the last of which
\* raises the terminal error.
C4_Witness ==
    /\ wiped = 2 /\ calls["onMessage"] > 0
    /\ lastEv = "fail" /\ consecFails = MAX_RETRIES + 1 /\ lastCb = "onErrorLost"

\* C4 as stated: after fail, fail, succeed the 3rd failure raises the
\* terminal error.
C4_Original ==
    /\ lastEv \in {"open", "msg", "errmsg", "complete"} => retryCount = 0
    /\ (wiped = 2 /\ lastEv = "fail" /\ consecFails = MAX_RETRIES)
          => lastCb = "onErrorLost"

\* =================================================================
\* Properties of the auth session
\* =================================================================

\* How many requests there are among the records T.
CountReq(T) == SumOver(T, req)

\* C5: at most one POST /auth/refresh is in flight at any time; while
\* requests wait for a refresh exactly one of them owns the one call in
\* flight; when all NumRequests (5) requests got their 401 before the
\* refresh resolved, exactly one refresh was issued; and when the refresh
\* succeeds every request that waited is replayed with the new token.
C5_SingleRefresh ==
    /\ refreshCalls <= 1
    /\ Waiting > 0 => (refreshCalls = 1 /\ CountSt(req, {"refreshing"}) = 1)
    /\ Waiting = NumRequests => refreshCount = 1
    /\ authEv = "refreshOk" =>
          /\ Waiting = 0
          /\ authToken = NewToken - 1
          /\ CountReq({e \in BagToSet(req) :
                          e.st = "replayed" /\ e.hdr = authToken /\ e.replays = 1}) = burst

\* C5 witness: all 5 requests waited on the single refresh, which has just
\* succeeded.
C5_Witness ==
    /\ authEv = "refreshOk" /\ burst = NumRequests /\ refreshCount = 1
    /\ CountSt(req, {"replayed"}) = NumRequests

\* C6: no request is replayed more than once, each POST /auth/refresh was
\* started by the first 401 of a request of its own, a 401 of the refresh
\* call itself starts no refresh, and a replayed request that fails is
\* settled with an error.
C6_ReplayAtMostOnce ==
    /\ \A e \in BagToSet(req) :
          /\ e.replays <= 1
          /\ e.st = "replayed" => (e.retry /\ e.replays = 1)
          /\ e.replays = 1 => e.st \in {"replayed", "done"}
    /\ ~selfRefresh
    /\ refreshCount <= CountReq({e \in BagToSet(req) : e.retry})
    /\ authEv = "replayFail" =>
          \E e \in BagToSet(req) : e.st = "done" /\ e.replays = 1 /\ e.result = "own401"

\* C6 witness: a replayed request got a second failure and was settled
\* with the error, and later the refresh call itself got a 401.
C6_Witness ==
    /\ authEv = "refreshFail401"
    /\ \E e \in BagToSet(req) : e.st = "done" /\ e.replays = 1 /\ e.result = "own401"

\* C7: when the refresh call fails, no subscriber is left waiting,
\* authToken, the Authorization default header and the 'auth' record are
\* cleared, and the owner and every queued request are settled with their
\* own 401 error.
C7_RefreshFailure ==
    authEv \in {"refreshFail", "refreshFail401"} =>
        /\ refreshSubscribers = 0
        /\ Waiting = 0
        /\ ~isRefreshingToken
        /\ authToken = 0 /\ authHeader = 0 /\ authRecord = 0
        /\ CountReq({e \in BagToSet(req) :
                        e.st = "done" /\ e.result = "own401" /\ e.replays = 0}) >= burst
        /\ \A e \in BagToSet(req) : e.result \in {"none", "ok", "own401", "otherError"}

\* C7 witness: a refresh with two or more queued subscribers failed.
C7_Witness ==
    /\ authEv = "refreshFail" /\ burst >= 3
    /\ CountReq({e \in BagToSet(req) : e.result = "own401"}) >= 3

\* =================================================================
\* Properties of the history facade
\* =================================================================

Writes == {"save", "import", "update", "delete"}

FacadeOps == {"preview", "get", "save", "import", "update", "delete", "export", "clear"}

\* C11: a facade operation (getHistoryPreview, getHistoryEntry,
\* saveToHistory, updateHistoryEntry, deleteHistoryEntry, importLearningPath,
\* exportHistory, clearHistory) that finds no auth token set goes to the
\* Local History Store, sends no request and leaves no request pending.
C11_NoTokenLocal ==
    (hev.op \in FacadeOps /\ ~hev.atCall) =>
        /\ hev.localCalled
        /\ ~hev.net
        /\ hev.phase \in {"local", "invalid"}
        /\ call = Idle
        /\ authToken = 0

\* C11 witness: exportHistory without a token has returned the local
\* history, which holds an entry.
C11_Witness ==
    /\ hev.op = "export" /\ ~hev.atCall /\ hev.localCalled /\ ~hev.net
    /\ hev.ret = LocalHistory /\ local # {}

RoutedOps == {"preview", "get", "save", "update", "delete", "export"}

\* C12 (as amended): with an auth token set, preview, get, create, update,
\* delete and exportAll go to the Remote History Client (preview possibly
\* answered from its cache) and the Local History Store is called only once
\* the remote call has failed; clearHistory goes to the Local History Store
\* and sends no request, whatever the auth token is.
C12_TokenRemote ==
    /\ (hev.op \in RoutedOps /\ hev.atCall) =>
          /\ hev.phase \in {"cache", "start", "done"}
          /\ hev.phase = "cache" => ~hev.localCalled /\ ~hev.net
          /\ hev.phase = "start" => ~hev.localCalled /\ hev.net /\ call.op = hev.op
          /\ hev.phase = "done" => hev.net /\ (hev.localCalled => hev.outcome # "ok")
    /\ hev.op = "clear" => hev.localCalled /\ ~hev.net /\ local = {}

\* C12 witness: clearHistory has emptied the Local History Store while an
\* auth token was set and the server held an entry.
C12_Witness ==
    hev.op = "clear" /\ hev.atCall /\ hev.localCalled /\ remote # {} /\ authToken # 0

\* C12 as stated: with an auth token set every operation, clearAll included,
\* is routed to the Remote History Client and the Local History Store is
\* not acted on unless the remote call failed.
C12_Original ==
    (hev.op \in RoutedOps \cup {"clear"} /\ hev.atCall) =>
        /\ hev.phase \in {"cache", "start", "done"}
        /\ hev.localCalled => (hev.net /\ hev.outcome \notin {"ok", "none"})

\* =================================================================
\* Properties of the facade's reads when the remote call fails
\* =================================================================

Reads == {"preview", "get", "export"}

\* C13 as stated: a remote read (getHistoryPreview, getHistoryEntry,
\* exportHistory) that fails with 401 or 403 leaves no auth token set and
\* is answered from the Local History Store.
C13_AuthErrorClears ==
    (hev.op \in Reads /\ hev.phase = "done" /\ hev.outcome \in {"e401", "e403"}) =>
        /\ authToken = 0
        /\ hev.localCalled
        /\ ~hev.threw

\* C14 (as amended): a remote read that fails with an error other than
\* 401/403 calls the Local History Store; getHistoryPreview and exportHistory return the local result, while
\* getHistoryEntry returns the local entry of that id if there is one and
\* throws 'Learning path not found' if there is none.
C14_ReadFallback ==
    (hev.op \in Reads /\ hev.phase = "done" /\ hev.outcome = "error") =>
        /\ hev.localCalled
        /\ hev.op = "preview" => ~hev.threw /\ hev.ret = <<"localPreview", Cardinality(local)>>
        /\ hev.op = "export" => ~hev.threw /\ hev.ret = LocalHistory
        /\ hev.op = "get" => (hev.threw <=> hev.ret = NoData) /\ (~hev.threw => hev.ret \in local)

\* C14 witness: getHistoryEntry, its request failed for a reason other than
\* 401/403, has returned the entry the Local History Store holds.
C14_Witness ==
    /\ hev.op = "get" /\ hev.phase = "done" /\ hev.outcome = "error"
    /\ hev.localCalled /\ ~hev.threw /\ hev.ret \in local

\* C14 as stated: every remote read that fails with a non-authentication
\* error returns the local result instead of failing.
C14_Original ==
    (hev.op \in Reads /\ hev.phase = "done" /\ hev.outcome = "error") =>
        (hev.localCalled /\ ~hev.threw)

\* =================================================================
\* Ownership of the entries
\* =================================================================

\* C20 as stated: no learning path is held by the Local History Store and
\* by the server at the same time (a migrated entry is gone from the Local
\* History Store), and a create that found an auth token set leaves its
\* entry on the server only.
C20_SingleOwner ==
    /\ \A n \in 1..MaxEntries :
          ~(<<"local", n>> \in local /\ <<"migrated", n>> \in remote)
    /\ (hev.op \in {"save", "import"} /\ hev.atCall /\ hev.phase = "done") =>
          (~hev.localCalled /\ hev.ret \in remote)

\* =================================================================
\* Properties of the progress messages
\* =================================================================

\* The step handles an inbound event whose data is valid JSON without the
\* complete flag and has the message m.
ProgressEvent(m) ==
    nEvents' = nEvents + 1 /\ lastEv' \in {"msg", "errmsg"} /\ lastMsg' = m

\* C16: whatever the stream delivers, progressUpdates never holds the same
\* message in two consecutive entries, and a step of the stream either
\* leaves the list as it is or appends the message just delivered at its end.
C16_NoConsecutiveDuplicates ==
    /\ [](\A k \in 1..(Len(progressUpdates) - 1) :
             progressUpdates[k] # progressUpdates[k + 1])
    /\ [][\/ progressUpdates' = progressUpdates
          \/ /\ lastEv' = "msg"
             /\ progressUpdates' = Append(progressUpdates, lastMsg')]_vars

\* C16 witness: the stream has delivered the same message twice in a row
\* (two onMessage calls) and the list holds it once.
C16_Witness ==
    /\ lastEv = "msg" /\ calls["onMessage"] = 2 /\ nEvents = 3
    /\ Len(progressUpdates) = 1 /\ progressUpdates[1] = lastMsg

\* C17 (as amended): the client invokes onMessage once for every progress
\* event, also for one whose message is identical to that of the preceding
\* event; it is the page's callback that leaves such a message out of
\* progressUpdates.
C17_OnMessagePerEvent ==
    [][\A m \in {"none", "text", "text2"} :
          ProgressEvent(m) =>
              /\ lastCb' = "onMessage"
              /\ calls'["onMessage"] = calls["onMessage"] + 1
              /\ (m = lastMsg /\ progressUpdates # <<>>) =>
                     progressUpdates' = progressUpdates]_vars

\* C17 witness: three progress events, the third with the message of the
\* second, have led to three onMessage calls and two entries.
C17_Witness ==
    /\ lastEv = "msg" /\ calls["onMessage"] = 3 /\ Len(progressUpdates) = 2
    /\ progressUpdates[2] = lastMsg

\* C17 as stated: an inbound progress message identical to the immediately
\* preceding one causes no onMessage invocation.
C17_Original ==
    [][\A m \in {"none", "text", "text2"} :
          (ProgressEvent(m) /\ m = lastMsg) =>
              calls'["onMessage"] = calls["onMessage"]]_vars

\* C18: an inbound event whose message starts with "Error:" invokes onError
\* (once, with the server's reason) and not onMessage, and is no transport
\* failure: no connection is closed or opened, retryCount keeps its value
\* and no reconnect timer is set.
C18_ErrorSentinel ==
    [][ProgressEvent("Error:") =>
              /\ lastCb' = "onErrorServer"
              /\ calls' = [calls EXCEPT !["onErrorServer"] = @ + 1]
              /\ es' = es
              /\ eventSource' = eventSource
              /\ retryCount' = retryCount
              /\ timers' = timers
              /\ progressUpdates' = progressUpdates]_vars

\* C18 witness: an "Error:" message has been handled after a reconnect; the
\* connection it came on is open and no timer is pending.
C18_Witness ==
    /\ lastEv = "errmsg" /\ lastCb = "onErrorServer" /\ calls["onErrorServer"] = 1
    /\ Len(es) = 2 /\ es[2] = "open" /\ timers = 0 /\ calls["onMessage"] = 0

\* =================================================================
\* Properties of the credential store
\* =================================================================

\* The keys of family f that hold a credential value.
ValuesStored(f) == {k \in {Family[f][1], Family[f][2]} : session[k] # "absent"}

Content(e) == [topic |-> e.topic, tags |-> e.tags, favorite |-> e.favorite]

\* C15 as stated: importLearningPath of the JSON exportHistory returned
\* creates entries equivalent to the exported ones: the same topics, tags
\* and favorite flags.
C15_RoundTrip ==
    tripEv.op = "importExport" =>
        {Content(tripEv.created[k]) : k \in 1..Len(tripEv.created)}
            = {Content(exported.entries[k]) : k \in 1..Len(exported.entries)}

\* =================================================================
\* Properties of the page: connections, percentage, tag lists
\* =================================================================

\* C21 as stated: one getProgressUpdates call never has two live
\* connections, and once the page has connected for a later task no
\* connection of the earlier call is live.
C21_OneLiveConnection ==
    /\ Cardinality(LiveSet) <= 1
    /\ laterCall = "live" => LiveSet = {}

\* C22 as stated: whenever the page holds progress messages, the
\* percentage is the keyword mapping applied to the latest of them (and
\* to their number, for text no rule matches).
C22_LatestMessage ==
    Len(progressUpdates) > 0 => progressPercentage = calculateProgress(progressUpdates)

\* Some value occurs twice in the list.
HasDuplicate(tags) == \E i, j \in 1..Len(tags) : i # j /\ tags[i] = tags[j]

\* Some value of the list is empty or holds blanks only.
HasBlank(tags) == \E i \in 1..Len(tags) : Trim(tags[i]) = <<>>

\* C23: no tag list (generator form, save dialog, history entry as
\* rendered and as stored) holds a value twice or holds an empty or
\* whitespace-only value.
C23_TagLists ==
    \A tags \in {initialTags, saveDialogTags, entryTags, storedTags} :
        ~HasDuplicate(tags) /\ ~HasBlank(tags)

\* C23 witness: every surface holds two tags, typed with blanks around them
\* on the form, and the card still shows the list it was rendered with.
C23_Witness ==
    /\ Len(initialTags) = 2 /\ Len(saveDialogTags) = 2 /\ Len(storedTags) = 2
    /\ Len(entryTags) = 1

C25_ClearedStaysCleared ==
    [][(authToken = 0 /\ authHeader = 0) => (authToken' = 0 /\ authHeader' = 0)]_vars

\* C26 as stated: a preview a session with a token gets from the server's
\* data (from the cache, or from a response with entries) lists exactly
\* the paths the server holds after the writes made so far.
C26_PreviewReflectsWrites ==
    (/\ hev.op = "preview" /\ hev.phase \in {"cache", "done"}
     /\ hev.atCall /\ hev.outcome \in {"none", "ok"} /\ hev.ret # NoData)
       => hev.ret = ServerPreview

\* C27 as stated: a preview answered from the cache is the history of the
\* session whose token is set.
C27_CacheOfThisSession ==
    (hev.op = "preview" /\ hev.phase = "cache") => hev.ret = SessionPreview(authToken)

\* C28: the flag is set exactly while a refresh call is in flight; the
\* subscriber list holds one callback for every request waiting on that
\* call and is empty when the flag is not set; a subscribed request has not
\* been settled or replayed, and the end of the refresh settles or replays
\* every one of them, once.
C28_SubscribersDrained ==
    /\ isRefreshingToken <=> refreshCalls > 0
    /\ refreshSubscribers = CountSt(req, {"subscribed"})
    /\ ~isRefreshingToken => (refreshSubscribers = 0 /\ CountSt(req, {"subscribed"}) = 0)
    /\ \A e \in BagToSet(req) :
          e.st = "subscribed" => (e.replays = 0 /\ e.result = "none" /\ e.retry)
    /\ authEv \in {"refreshOk", "refreshFail", "refreshFail401"} =>
          CountReq({e \in BagToSet(req) :
                       e.retry /\ e.st \in {"replayed", "done"} /\ e.replays <= 1}) >= burst

\* C28 witness: a refresh with three subscribers has succeeded, after an
\* earlier refresh had failed.
C28_Witness ==
    /\ authEv = "refreshOk" /\ burst = 4 /\ ~isRefreshingToken
    /\ refreshCount = 2 /\ refreshOK = 1

\* =================================================================
\* Properties of getProgressUpdates: unparseable events, termination
\* =================================================================

\* C29: an inbound event whose data is not valid JSON invokes onError once
\* and no other callback, and is no transport failure: no connection is
\* closed or opened, retryCount keeps its value, no reconnect timer is set
\* and the page's list stays as it is.
C29_InvalidJson ==
    [][(nEvents' = nEvents + 1 /\ lastEv' = "bad") =>
              /\ lastCb' = "onErrorParse"
              /\ calls' = [calls EXCEPT !["onErrorParse"] = @ + 1]
              /\ es' = es
              /\ eventSource' = eventSource
              /\ retryCount' = retryCount
              /\ timers' = timers
              /\ progressUpdates' = progressUpdates]_vars

\* C29 witness: a second unparseable event has been handled on the
\* connection made by a reconnect, which delivered a progress message
\* before and is still open.
C29_Witness ==
    /\ lastEv = "bad" /\ lastCb = "onErrorParse" /\ calls["onErrorParse"] = 2
    /\ calls["onMessage"] = 1 /\ Len(es) = 2 /\ es[2] = "open" /\ timers = 0

\* The call has seen transport events only: no inbound event was handled.
TransportOnly ==
    /\ calls["onMessage"] = 0 /\ calls["onErrorServer"] = 0
    /\ calls["onErrorParse"] = 0 /\ ~completeSeen

====
